---- MODULE Spec2Model ----
(***************************************************************************)
(* Model of ammuto-core: the per-kind query builders of query.rs (modifier *)
(* queue, accumulator, top-level condition list, finalise), the dispatcher *)
(* Core::send_query of lib.rs and the record constructors and accessors of *)
(* data.rs.                                                                *)
(***************************************************************************)
EXTENDS Integers, Sequences, FiniteSets, TLC

\* ---------------------------------------------------------------- bounds
\* longest sequence of builder calls (not/or/with_*) made on one builder
MaxCalls == 5
\* arguments of with_id are drawn from 1..MaxId
MaxId == 2
\* Uuid::new_v4() is drawn from 1..MaxUuid
MaxUuid == 2

\* number of send_query calls made on one Core (all may be in flight at once)
MaxSends == 2

\* the random bytes of a Uuid::new_v4() are drawn from 0..MaxRandomByte
MaxRandomByte == 2

Ids == 1..MaxId
Names == {"a"}
Uuids == 1..MaxUuid

\* ------------------------------------------------------- query.rs: types
QueryTypes == {"Tags", "Media", "Groups", "Collections", "Users"}

\* QueryCondition variants; Option<T> is a sequence of length 0 or 1
Id(id) == [tag |-> "Id", id |-> id]
NameIs(name) == [tag |-> "NameIs", name |-> name]
NotCond(condition) == [tag |-> "Not", inner |-> condition]
OrCond(first, second) == [tag |-> "Or", first |-> first, second |-> second]

None == <<>>
Some(x) == <<x>>

\* Vec::push / Vec::pop
Push(vec, x) == Append(vec, x)
Pop(vec) == IF Len(vec) = 0 THEN [vec |-> vec, item |-> None]
            ELSE [vec |-> SubSeq(vec, 1, Len(vec) - 1), item |-> Some(vec[Len(vec)])]

\* count() / all(): the five builders construct the same four fields
count == [return_type |-> "Quantity", conditions |-> <<>>,
          accumulator |-> None, modifiers |-> <<>>]
all == [return_type |-> "Objects", conditions |-> <<>>,
        accumulator |-> None, modifiers |-> <<>>]

\* ---------------------------------------------------------- TagQuery
\* queue_modifier that slides the modifier under the ones already queued
TagQueueModifier_Bottom(self, modifier) ==
    [self EXCEPT !.modifiers = <<modifier>> \o @]

TagQueueModifier(self, modifier) ==
    [self EXCEPT !.modifiers = Push(@, modifier)]

\* dequeue_modifier that takes the oldest modifier (remove(0)) instead of pop()
TagDequeueModifier_Fifo(self) ==
    IF Len(self.modifiers) = 0
    THEN [self |-> self, modifier |-> None]
    ELSE [self |-> [self EXCEPT !.modifiers = Tail(@)],
          modifier |-> Some(Head(self.modifiers))]

TagDequeueModifier(self) ==
    LET p == Pop(self.modifiers)
    IN  [self |-> [self EXCEPT !.modifiers = p.vec], modifier |-> p.item]

\* add_condition that inserts at the front of the condition list
RECURSIVE TagAddCondition_Front(_, _)
TagAddCondition_Front(self, condition) ==
    LET d == TagDequeueModifier(self)
    IN  IF Len(d.modifier) = 1
        THEN IF d.modifier[1] = "Not"
             THEN TagAddCondition_Front(d.self, NotCond(condition))
             ELSE IF Len(d.self.accumulator) = 1
                  THEN TagAddCondition_Front([d.self EXCEPT !.accumulator = None],
                                       OrCond(d.self.accumulator[1], condition))
                  ELSE [TagQueueModifier(d.self, "Or")
                            EXCEPT !.accumulator = Some(condition)]
        ELSE [self EXCEPT !.conditions = <<condition>> \o @]

\* add_condition whose Not arm re-submits the condition without wrapping it
RECURSIVE TagAddCondition_NoWrap(_, _)
TagAddCondition_NoWrap(self, condition) ==
    LET d == TagDequeueModifier(self)
    IN  IF Len(d.modifier) = 1
        THEN IF d.modifier[1] = "Not"
             THEN TagAddCondition_NoWrap(d.self, condition)
             ELSE IF Len(d.self.accumulator) = 1
                  THEN TagAddCondition_NoWrap([d.self EXCEPT !.accumulator = None],
                                       OrCond(d.self.accumulator[1], condition))
                  ELSE [TagQueueModifier(d.self, "Or")
                            EXCEPT !.accumulator = Some(condition)]
        ELSE [self EXCEPT !.conditions = Push(@, condition)]

\* add_condition that builds Or(condition, first) instead of Or(first, condition)
RECURSIVE TagAddCondition_Swapped(_, _)
TagAddCondition_Swapped(self, condition) ==
    LET d == TagDequeueModifier(self)
    IN  IF Len(d.modifier) = 1
        THEN IF d.modifier[1] = "Not"
             THEN TagAddCondition_Swapped(d.self, NotCond(condition))
             ELSE IF Len(d.self.accumulator) = 1
                  THEN TagAddCondition_Swapped([d.self EXCEPT !.accumulator = None],
                                       OrCond(condition, d.self.accumulator[1]))
                  ELSE [TagQueueModifier(d.self, "Or")
                            EXCEPT !.accumulator = Some(condition)]
        ELSE [self EXCEPT !.conditions = Push(@, condition)]

\* add_condition that cancels a double negation instead of nesting it
RECURSIVE TagAddCondition_Simplify(_, _)
TagAddCondition_Simplify(self, condition) ==
    LET d == TagDequeueModifier(self)
    IN  IF Len(d.modifier) = 1
        THEN IF d.modifier[1] = "Not"
             THEN TagAddCondition_Simplify(d.self,
                      IF condition.tag = "Not" THEN condition.inner
                      ELSE NotCond(condition))
             ELSE IF Len(d.self.accumulator) = 1
                  THEN TagAddCondition_Simplify([d.self EXCEPT !.accumulator = None],
                                       OrCond(d.self.accumulator[1], condition))
                  ELSE [TagQueueModifier(d.self, "Or")
                            EXCEPT !.accumulator = Some(condition)]
        ELSE [self EXCEPT !.conditions = Push(@, condition)]

\* add_condition that pushes a completed Or pair instead of re-submitting it
RECURSIVE TagAddCondition_NoResubmit(_, _)
TagAddCondition_NoResubmit(self, condition) ==
    LET d == TagDequeueModifier(self)
    IN  IF Len(d.modifier) = 1
        THEN IF d.modifier[1] = "Not"
             THEN TagAddCondition_NoResubmit(d.self, NotCond(condition))
             ELSE IF Len(d.self.accumulator) = 1
                  THEN [d.self EXCEPT !.accumulator = None,
                                      !.conditions = Push(@,
                                          OrCond(d.self.accumulator[1], condition))]
                  ELSE [TagQueueModifier(d.self, "Or")
                            EXCEPT !.accumulator = Some(condition)]
        ELSE [self EXCEPT !.conditions = Push(@, condition)]

\* add_condition that reads the pending operand (clone) without taking it
RECURSIVE TagAddCondition_NoTake(_, _)
TagAddCondition_NoTake(self, condition) ==
    LET d == TagDequeueModifier(self)
    IN  IF Len(d.modifier) = 1
        THEN IF d.modifier[1] = "Not"
             THEN TagAddCondition_NoTake(d.self, NotCond(condition))
             ELSE IF Len(d.self.accumulator) = 1
                  THEN TagAddCondition_NoTake(d.self,
                                       OrCond(d.self.accumulator[1], condition))
                  ELSE [TagQueueModifier(d.self, "Or")
                            EXCEPT !.accumulator = Some(condition)]
        ELSE [self EXCEPT !.conditions = Push(@, condition)]

\* add_condition whose Not arm pushes the wrapped condition instead of
\* re-submitting it
RECURSIVE TagAddCondition_NotPushes(_, _)
TagAddCondition_NotPushes(self, condition) ==
    LET d == TagDequeueModifier(self)
    IN  IF Len(d.modifier) = 1
        THEN IF d.modifier[1] = "Not"
             THEN [d.self EXCEPT !.conditions = Push(@, NotCond(condition))]
             ELSE IF Len(d.self.accumulator) = 1
                  THEN TagAddCondition_NotPushes([d.self EXCEPT !.accumulator = None],
                                       OrCond(d.self.accumulator[1], condition))
                  ELSE [TagQueueModifier(d.self, "Or")
                            EXCEPT !.accumulator = Some(condition)]
        ELSE [self EXCEPT !.conditions = Push(@, condition)]

\* add_condition that parks the operand without putting the Or back
RECURSIVE TagAddCondition_NoRequeue(_, _)
TagAddCondition_NoRequeue(self, condition) ==
    LET d == TagDequeueModifier(self)
    IN  IF Len(d.modifier) = 1
        THEN IF d.modifier[1] = "Not"
             THEN TagAddCondition_NoRequeue(d.self, NotCond(condition))
             ELSE IF Len(d.self.accumulator) = 1
                  THEN TagAddCondition_NoRequeue([d.self EXCEPT !.accumulator = None],
                                       OrCond(d.self.accumulator[1], condition))
                  ELSE [d.self EXCEPT !.accumulator = Some(condition)]
        ELSE [self EXCEPT !.conditions = Push(@, condition)]

RECURSIVE TagAddCondition(_, _)
TagAddCondition(self, condition) ==
    LET d == TagDequeueModifier(self)
    IN  IF Len(d.modifier) = 1
        THEN IF d.modifier[1] = "Not"
             THEN TagAddCondition(d.self, NotCond(condition))
             ELSE IF Len(d.self.accumulator) = 1
                  THEN TagAddCondition([d.self EXCEPT !.accumulator = None],
                                       OrCond(d.self.accumulator[1], condition))
                  ELSE [TagQueueModifier(d.self, "Or")
                            EXCEPT !.accumulator = Some(condition)]
        ELSE [self EXCEPT !.conditions = Push(@, condition)]

\* add_condition whose Not arm peeks at a Not the first time round (puts it
\* back and re-submits) and only consumes it once the condition is wrapped
RECURSIVE TagAddConditionRun_Peek(_, _)
TagAddConditionRun_Peek(self, condition) ==
    LET d == TagDequeueModifier(self)
        entry == <<Len(self.modifiers)>>
        rest(r) == [self |-> r.self, queue |-> entry \o r.queue]
    IN  IF Len(d.modifier) = 1
        THEN IF d.modifier[1] = "Not"
             THEN IF condition.tag = "Not"
                  THEN rest(TagAddConditionRun_Peek(d.self, condition))
                  ELSE rest(TagAddConditionRun_Peek(self, NotCond(condition)))
             ELSE IF Len(d.self.accumulator) = 1
                  THEN rest(TagAddConditionRun_Peek(
                                [d.self EXCEPT !.accumulator = None],
                                OrCond(d.self.accumulator[1], condition)))
                  ELSE [self |-> [TagQueueModifier(d.self, "Or")
                                     EXCEPT !.accumulator = Some(condition)],
                        queue |-> entry]
        ELSE [self |-> [self EXCEPT !.conditions = Push(@, condition)],
              queue |-> entry]

\* add_condition invocation by invocation: the builder it leaves, and the
\* length of the modifier queue on entry to each invocation of the call
RECURSIVE TagAddConditionRun(_, _)
TagAddConditionRun(self, condition) ==
    LET d == TagDequeueModifier(self)
        entry == <<Len(self.modifiers)>>
        rest(r) == [self |-> r.self, queue |-> entry \o r.queue]
    IN  IF Len(d.modifier) = 1
        THEN IF d.modifier[1] = "Not"
             THEN rest(TagAddConditionRun(d.self, NotCond(condition)))
             ELSE IF Len(d.self.accumulator) = 1
                  THEN rest(TagAddConditionRun(
                                [d.self EXCEPT !.accumulator = None],
                                OrCond(d.self.accumulator[1], condition)))
                  ELSE [self |-> [TagQueueModifier(d.self, "Or")
                                     EXCEPT !.accumulator = Some(condition)],
                        queue |-> entry]
        ELSE [self |-> [self EXCEPT !.conditions = Push(@, condition)],
              queue |-> entry]

\* finalise that always asks for the quantity
TagFinalise_Quantity(self, id) ==
    [query_type |-> "Tags", conditions |-> self.conditions,
     return_type |-> "Quantity", id |-> id]

TagFinalise(self, id) ==
    [query_type |-> "Tags", conditions |-> self.conditions,
     return_type |-> self.return_type, id |-> id]

\* ---------------------------------------------------------- MediaQuery
MediaQueueModifier(self, modifier) ==
    [self EXCEPT !.modifiers = Push(@, modifier)]

MediaDequeueModifier(self) ==
    LET p == Pop(self.modifiers)
    IN  [self |-> [self EXCEPT !.modifiers = p.vec], modifier |-> p.item]

\* MediaQuery add_condition drifted from the other copies: it builds
\* Or(condition, first)
RECURSIVE MediaAddCondition_Swapped(_, _)
MediaAddCondition_Swapped(self, condition) ==
    LET d == MediaDequeueModifier(self)
    IN  IF Len(d.modifier) = 1
        THEN IF d.modifier[1] = "Not"
             THEN MediaAddCondition_Swapped(d.self, NotCond(condition))
             ELSE IF Len(d.self.accumulator) = 1
                  THEN MediaAddCondition_Swapped([d.self EXCEPT !.accumulator = None],
                                       OrCond(condition, d.self.accumulator[1]))
                  ELSE [MediaQueueModifier(d.self, "Or")
                            EXCEPT !.accumulator = Some(condition)]
        ELSE [self EXCEPT !.conditions = Push(@, condition)]

RECURSIVE MediaAddCondition(_, _)
MediaAddCondition(self, condition) ==
    LET d == MediaDequeueModifier(self)
    IN  IF Len(d.modifier) = 1
        THEN IF d.modifier[1] = "Not"
             THEN MediaAddCondition(d.self, NotCond(condition))
             ELSE IF Len(d.self.accumulator) = 1
                  THEN MediaAddCondition([d.self EXCEPT !.accumulator = None],
                                       OrCond(d.self.accumulator[1], condition))
                  ELSE [MediaQueueModifier(d.self, "Or")
                            EXCEPT !.accumulator = Some(condition)]
        ELSE [self EXCEPT !.conditions = Push(@, condition)]

MediaFinalise(self, id) ==
    [query_type |-> "Media", conditions |-> self.conditions,
     return_type |-> self.return_type, id |-> id]

\* ---------------------------------------------------------- GroupQuery
GroupQueueModifier(self, modifier) ==
    [self EXCEPT !.modifiers = Push(@, modifier)]

GroupDequeueModifier(self) ==
    LET p == Pop(self.modifiers)
    IN  [self |-> [self EXCEPT !.modifiers = p.vec], modifier |-> p.item]

RECURSIVE GroupAddCondition(_, _)
GroupAddCondition(self, condition) ==
    LET d == GroupDequeueModifier(self)
    IN  IF Len(d.modifier) = 1
        THEN IF d.modifier[1] = "Not"
             THEN GroupAddCondition(d.self, NotCond(condition))
             ELSE IF Len(d.self.accumulator) = 1
                  THEN GroupAddCondition([d.self EXCEPT !.accumulator = None],
                                       OrCond(d.self.accumulator[1], condition))
                  ELSE [GroupQueueModifier(d.self, "Or")
                            EXCEPT !.accumulator = Some(condition)]
        ELSE [self EXCEPT !.conditions = Push(@, condition)]

GroupFinalise(self, id) ==
    [query_type |-> "Groups", conditions |-> self.conditions,
     return_type |-> self.return_type, id |-> id]

\* ---------------------------------------------------------- CollectionQuery
CollectionQueueModifier(self, modifier) ==
    [self EXCEPT !.modifiers = Push(@, modifier)]

CollectionDequeueModifier(self) ==
    LET p == Pop(self.modifiers)
    IN  [self |-> [self EXCEPT !.modifiers = p.vec], modifier |-> p.item]

RECURSIVE CollectionAddCondition(_, _)
CollectionAddCondition(self, condition) ==
    LET d == CollectionDequeueModifier(self)
    IN  IF Len(d.modifier) = 1
        THEN IF d.modifier[1] = "Not"
             THEN CollectionAddCondition(d.self, NotCond(condition))
             ELSE IF Len(d.self.accumulator) = 1
                  THEN CollectionAddCondition([d.self EXCEPT !.accumulator = None],
                                       OrCond(d.self.accumulator[1], condition))
                  ELSE [CollectionQueueModifier(d.self, "Or")
                            EXCEPT !.accumulator = Some(condition)]
        ELSE [self EXCEPT !.conditions = Push(@, condition)]

CollectionFinalise(self, id) ==
    [query_type |-> "Collections", conditions |-> self.conditions,
     return_type |-> self.return_type, id |-> id]

\* ---------------------------------------------------------- UserQuery
UserQueueModifier(self, modifier) ==
    [self EXCEPT !.modifiers = Push(@, modifier)]

UserDequeueModifier(self) ==
    LET p == Pop(self.modifiers)
    IN  [self |-> [self EXCEPT !.modifiers = p.vec], modifier |-> p.item]

RECURSIVE UserAddCondition(_, _)
UserAddCondition(self, condition) ==
    LET d == UserDequeueModifier(self)
    IN  IF Len(d.modifier) = 1
        THEN IF d.modifier[1] = "Not"
             THEN UserAddCondition(d.self, NotCond(condition))
             ELSE IF Len(d.self.accumulator) = 1
                  THEN UserAddCondition([d.self EXCEPT !.accumulator = None],
                                       OrCond(d.self.accumulator[1], condition))
                  ELSE [UserQueueModifier(d.self, "Or")
                            EXCEPT !.accumulator = Some(condition)]
        ELSE [self EXCEPT !.conditions = Push(@, condition)]

UserFinalise(self, id) ==
    [query_type |-> "Users", conditions |-> self.conditions,
     return_type |-> self.return_type, id |-> id]

\* ------------------------------------------- trait QueryBuilder dispatch
QueueModifier(k, self, modifier) ==
    CASE k = "Tags" -> TagQueueModifier(self, modifier)
      [] k = "Media" -> MediaQueueModifier(self, modifier)
      [] k = "Groups" -> GroupQueueModifier(self, modifier)
      [] k = "Collections" -> CollectionQueueModifier(self, modifier)
      [] k = "Users" -> UserQueueModifier(self, modifier)

AddCondition(k, self, condition) ==
    CASE k = "Tags" -> TagAddCondition(self, condition)
      [] k = "Media" -> MediaAddCondition(self, condition)
      [] k = "Groups" -> GroupAddCondition(self, condition)
      [] k = "Collections" -> CollectionAddCondition(self, condition)
      [] k = "Users" -> UserAddCondition(self, condition)

\* K::count() / K::all(): the five impls build the same four fields
Construct(k, c) == IF c = "count" THEN count ELSE all

Finalise(k, self, id) ==
    CASE k = "Tags" -> TagFinalise(self, id)
      [] k = "Media" -> MediaFinalise(self, id)
      [] k = "Groups" -> GroupFinalise(self, id)
      [] k = "Collections" -> CollectionFinalise(self, id)
      [] k = "Users" -> UserFinalise(self, id)

\* ------------------------------------------------- query.rs / lib.rs: results
\* DatabaseResult variants a DatabaseAdapter can hand back; the payload
\* vectors are opaque to the dispatcher, so only the empty ones are drawn.
\* NoDatabase is the value lib.rs builds as DatabaseResult::NoDatabase; the
\* enum in query.rs lists no such variant (it is a QueryError variant), and
\* it is the only failure outcome a DatabaseResult can carry.
Integer(n) == [tag |-> "Integer", n |-> n]
Tags(v) == [tag |-> "Tags", v |-> v]
NoDatabase == [tag |-> "NoDatabase"]
Counts == {0, 7}
DatabaseResult == {Integer(n) : n \in Counts} \cup {Tags(<<>>), NoDatabase}

\* DatabaseQuery values handed to Core::send_query
DatabaseQuery ==
    {[query_type |-> "Tags", conditions |-> cs, return_type |-> "Quantity", id |-> u] :
        cs \in {<<>>, <<Id(1)>>}, u \in Uuids}

\* ------------------------------------------------------ Core::send_query
\* The statements of send_query in program order. A call into an adapter is
\* two steps (the adapter is entered, the adapter returns) because the
\* adapter runs outside the core and other send_query calls may interleave.
\* send_query that reports to the frontend only when there is no database
SendQueryBody_NoCallback(db) ==
    IF Len(db) = 1
    THEN <<"database.send_query", "database.returned", "return">>
    ELSE <<"frontend.database_message", "frontend.returned", "return">>

\* send_query that hands the callback off and returns without waiting for it
SendQueryBody_Detached(db) ==
    IF Len(db) = 1
    THEN <<"database.send_query", "database.returned",
           "frontend.database_message", "return", "frontend.returned">>
    ELSE <<"frontend.database_message", "return", "frontend.returned">>

\* send_query that asks the database a second time before reporting
SendQueryBody_Retry(db) ==
    IF Len(db) = 1
    THEN <<"database.send_query", "database.returned",
           "database.send_query", "database.returned",
           "frontend.database_message", "frontend.returned", "return">>
    ELSE <<"frontend.database_message", "frontend.returned", "return">>

SendQueryBody(db) ==
    IF Len(db) = 1
    THEN <<"database.send_query", "database.returned",
           "frontend.database_message", "frontend.returned", "return">>
    ELSE <<"frontend.database_message", "frontend.returned", "return">>

\* arguments of frontend.database_message
\* database_message that is always told NoDatabase
CallbackArgs_AlwaysNoDatabase(db, send) ==
    [id |-> send.query.id, values |-> NoDatabase]

CallbackArgs(db, send) ==
    IF Len(db) = 1
    THEN [id |-> send.query.id, values |-> send.result[1]]
    ELSE [id |-> send.query.id, values |-> NoDatabase]

\* value of the send_query call
\* send_query that answers Integer(0) when there is no database
ReturnValue_Zero(db, send) ==
    IF Len(db) = 1 THEN send.result[1] ELSE Integer(0)

ReturnValue(db, send) ==
    IF Len(db) = 1 THEN send.result[1] ELSE NoDatabase

\* ------------------------------------------------ data.rs: record values
\* DatabaseValue<T>
DbSome(value) == [tag |-> "Some", value |-> value]
DbNone == [tag |-> "None"]
Unauthorised == [tag |-> "Unauthorised"]
DatabaseValue(T) == {DbSome(v) : v \in T} \cup {DbNone, Unauthorised}

\* A Uuid is its 16 bytes, most significant first; a u64 is 8 bytes, most
\* significant first. new_v4() fills the bytes at random and then sets the
\* version nibble (byte 7 = 0x4_) and the variant bits (byte 9 = 0b10______).
RandomBytes == 0..MaxRandomByte
NewV4 ==
    {<<a, 0, 0, 0, 0, 0, 64, 0, 128, 0, 0, 0, 0, 0, 0, b>> :
        a \in RandomBytes, b \in RandomBytes}

\* Uuid::as_u64_pair(): (most significant 64 bits, least significant 64 bits)
AsU64Pair(uuid) == <<SubSeq(uuid, 1, 8), SubSeq(uuid, 9, 16)>>

IdLists == {<<>>, <<1>>}
Extensions == {"png"}
Passhashes == {"h"}
\* Option<Rc<dyn MediaProperties>>
CustomProperties == {None, Some("properties")}
U64s == {AsU64Pair(uuid)[1] : uuid \in NewV4}

\* Tag::new with the low half of the uuid as id
TagNew_LowHalf(name, created_by, aliases, uuid) ==
    [id |-> AsU64Pair(uuid)[2],
     name |-> DbSome(name),
     created_by |-> DbSome(created_by),
     aliases |-> DbSome(aliases)]

TagNew(name, created_by, aliases, uuid) ==
    [id |-> AsU64Pair(uuid)[1],
     name |-> DbSome(name),
     created_by |-> DbSome(created_by),
     aliases |-> DbSome(aliases)]

CollectionNew(name, created_by, contained_media, uuid) ==
    [id |-> AsU64Pair(uuid)[1],
     name |-> DbSome(name),
     created_by |-> DbSome(created_by),
     contained_media |-> DbSome(contained_media)]

GroupNew(name, created_by, contained_tags, uuid) ==
    [id |-> AsU64Pair(uuid)[1],
     name |-> DbSome(name),
     created_by |-> DbSome(created_by),
     contained_tags |-> DbSome(contained_tags)]

MediaNew(extension, created_by, custom_properties, uuid) ==
    [id |-> AsU64Pair(uuid)[1],
     extension |-> DbSome(extension),
     created_by |-> DbSome(created_by),
     custom_properties |-> IF Len(custom_properties) = 1
                           THEN DbSome(custom_properties[1])
                           ELSE DbNone]

\* User::new that withholds the passhash
UserNew_HidePasshash(name, passhash, uuid) ==
    [id |-> AsU64Pair(uuid)[1],
     name |-> DbSome(name),
     passhash |-> Unauthorised]

UserNew(name, passhash, uuid) ==
    [id |-> AsU64Pair(uuid)[1],
     name |-> DbSome(name),
     passhash |-> DbSome(passhash)]

\* struct literal Tag { id, name, created_by, aliases }
TagStruct(id, name, created_by, aliases) ==
    [id |-> id, name |-> name, created_by |-> created_by, aliases |-> aliases]

\* Tag accessors
TagId(self) == self.id
TagName(self) == self.name
TagAliases(self) == self.aliases

\* created_by() that reports a withheld value as a missing one
TagCreatedBy_Conflate(self) ==
    IF self.created_by = Unauthorised THEN DbNone ELSE self.created_by

TagCreatedBy(self) == self.created_by

NothingSeen == [id |-> None, name |-> None, aliases |-> None, created_by |-> None]

\* --------------------------------------------------------------- state
\* kind     which builder struct is in use (TagQuery .. UserQuery)
\* constructor  which of count() / all() built it
\* builder  its fields: return_type, conditions, accumulator, modifiers
\* history  the builder calls made so far, in call order
\* query    the DatabaseQuery returned by finalise(), None while building
\* database Core.database: None or Some(adapter)
\* sends    one record per send_query call on the Core, in submission order:
\*          query    the argument
\*          pc       index of the next statement of SendQueryBody
\*          result   what database.send_query returned, None before that
\*          trace    what this call has done so far, in order
\*          returned the value handed back to the caller, None until then
\* record   the data.rs record that was constructed, None before that:
\*          type     Tag / Collection / Group / Media / User
\*          made_by  "new" (K::new) or "literal" (struct literal)
\*          uuid     the Uuid::new_v4() drawn by K::new
\*          args     the arguments / field values it was constructed with
\*          value    the struct
\* seen     what each Tag accessor returned, None if not called yet
VARIABLES kind, constructor, builder, history, query, database, sends,
          record, seen

vars == <<kind, constructor, builder, history, query, database, sends, record, seen>>
builderVars == <<kind, constructor, builder, history, query>>
coreVars == <<database, sends>>
dataVars == <<record, seen>>

Init ==
    /\ kind \in QueryTypes
    /\ constructor \in {"count", "all"}
    /\ builder = Construct(kind, constructor)
    /\ history = <<>>
    /\ query = None
    /\ database = None
    /\ sends = <<>>
    /\ record = None
    /\ seen = NothingSeen

Building == query = None /\ Len(history) < MaxCalls

not ==
    /\ Building
    /\ builder' = QueueModifier(kind, builder, "Not")
    /\ history' = Append(history, [call |-> "not"])
    /\ UNCHANGED <<kind, constructor, query, coreVars, dataVars>>

or ==
    /\ Building
    /\ builder' = QueueModifier(kind, builder, "Or")
    /\ history' = Append(history, [call |-> "or"])
    /\ UNCHANGED <<kind, constructor, query, coreVars, dataVars>>

with_id ==
    \E id \in Ids :
        /\ Building
        /\ builder' = AddCondition(kind, builder, Id(id))
        /\ history' = Append(history, [call |-> "add", condition |-> Id(id)])
        /\ UNCHANGED <<kind, constructor, query, coreVars, dataVars>>

with_name ==
    \E name \in Names :
        /\ Building
        /\ builder' = AddCondition(kind, builder, NameIs(name))
        /\ history' = Append(history, [call |-> "add", condition |-> NameIs(name)])
        /\ UNCHANGED <<kind, constructor, query, coreVars, dataVars>>

finalise ==
    \E id \in Uuids :
        /\ query = None
        /\ query' = Some(Finalise(kind, builder, id))
        /\ UNCHANGED <<kind, constructor, builder, history, coreVars, dataVars>>

Next == not \/ or \/ with_id \/ with_name \/ finalise

Spec == Init /\ [][Next]_vars

\* ------------------------------------------------------ dispatcher steps
CoreInit ==
    /\ kind = "Tags"
    /\ constructor = "count"
    /\ builder = count
    /\ history = <<>>
    /\ query = None
    /\ database \in {None, Some("adapter")}
    /\ sends = <<>>
    /\ record = None
    /\ seen = NothingSeen

Stmt(k) ==
    LET body == SendQueryBody(database)
    IN  IF sends[k].pc <= Len(body) THEN body[sends[k].pc] ELSE "done"

Advance(k, ev) ==
    [sends[k] EXCEPT !.pc = @ + 1, !.trace = Append(@, ev)]

\* a caller invokes core.send_query(q)
SendQuery ==
    \E q \in DatabaseQuery :
        /\ Len(sends) < MaxSends
        /\ sends' = Append(sends, [query |-> q, pc |-> 1, result |-> None,
                                   trace |-> <<>>, returned |-> None])
        /\ UNCHANGED <<builderVars, database, dataVars>>

\* database.send_query(query) is entered
DatabaseSendQuery ==
    \E k \in 1..Len(sends) :
        /\ Stmt(k) = "database.send_query"
        /\ sends' = [sends EXCEPT ![k] =
              Advance(k, [ev |-> "database.send_query", query |-> sends[k].query])]
        /\ UNCHANGED <<builderVars, database, dataVars>>

\* the adapter returns, and the Core keeps the latest result in one slot
\* that every call holding a result reads from
DatabaseReturned_Shared ==
    \E k \in 1..Len(sends), r \in DatabaseResult :
        /\ Stmt(k) = "database.returned"
        /\ sends' = [j \in DOMAIN sends |->
              IF j = k
              THEN [Advance(k, [ev |-> "database.returned", values |-> r])
                       EXCEPT !.result = Some(r)]
              ELSE IF sends[j].result # None
                   THEN [sends[j] EXCEPT !.result = Some(r)]
                   ELSE sends[j]]
        /\ UNCHANGED <<builderVars, database, dataVars>>

\* the adapter returns some DatabaseResult
DatabaseReturned ==
    \E k \in 1..Len(sends), r \in DatabaseResult :
        /\ Stmt(k) = "database.returned"
        /\ sends' = [sends EXCEPT ![k] =
              [Advance(k, [ev |-> "database.returned", values |-> r])
                  EXCEPT !.result = Some(r)]]
        /\ UNCHANGED <<builderVars, database, dataVars>>

\* frontend.database_message(id, values) is entered
FrontendDatabaseMessage ==
    \E k \in 1..Len(sends) :
        /\ Stmt(k) = "frontend.database_message"
        /\ LET args == CallbackArgs(database, sends[k])
           IN  sends' = [sends EXCEPT ![k] =
                  Advance(k, [ev |-> "frontend.database_message",
                              id |-> args.id, values |-> args.values])]
        /\ UNCHANGED <<builderVars, database, dataVars>>

\* the frontend callback returns
FrontendReturned ==
    \E k \in 1..Len(sends) :
        /\ Stmt(k) = "frontend.returned"
        /\ sends' = [sends EXCEPT ![k] = Advance(k, [ev |-> "frontend.returned"])]
        /\ UNCHANGED <<builderVars, database, dataVars>>

\* send_query with a timeout: a call still waiting for the adapter gives up
\* and hands NoDatabase back
Return_Timeout ==
    \E k \in 1..Len(sends) :
        /\ Stmt(k) \in {"return", "database.returned"}
        /\ LET v == IF Stmt(k) = "return"
                    THEN ReturnValue(database, sends[k]) ELSE NoDatabase
           IN  sends' = [sends EXCEPT ![k] =
                  [@ EXCEPT !.pc = Len(SendQueryBody(database)) + 1,
                            !.trace = Append(@, [ev |-> "return", values |-> v]),
                            !.returned = Some(v)]]
        /\ UNCHANGED <<builderVars, database, dataVars>>

\* send_query hands its value back to the caller
Return ==
    \E k \in 1..Len(sends) :
        /\ Stmt(k) = "return"
        /\ LET v == ReturnValue(database, sends[k])
           IN  sends' = [sends EXCEPT ![k] =
                  [Advance(k, [ev |-> "return", values |-> v])
                      EXCEPT !.returned = Some(v)]]
        /\ UNCHANGED <<builderVars, database, dataVars>>

CoreNext ==
    \/ SendQuery
    \/ DatabaseSendQuery
    \/ DatabaseReturned
    \/ FrontendDatabaseMessage
    \/ FrontendReturned
    \/ Return

CoreSpec == CoreInit /\ [][CoreNext]_vars

\* The dispatcher with the progress its own code makes: send_query has no
\* await and no branch that waits, so once a call is made each of its own
\* statements is eventually executed.  Nothing is assumed of the adapters:
\* database.send_query and the frontend callback may never return.
CoreLiveSpec ==
    /\ CoreInit
    /\ [][CoreNext]_vars
    /\ WF_vars(DatabaseSendQuery)
    /\ WF_vars(FrontendDatabaseMessage)
    /\ WF_vars(Return)

\* ------------------------------------------------------- record steps
DataInit ==
    /\ kind = "Tags"
    /\ constructor = "count"
    /\ builder = count
    /\ history = <<>>
    /\ query = None
    /\ database = None
    /\ sends = <<>>
    /\ record = None
    /\ seen = NothingSeen

Tag_new ==
    \E name \in Names, created_by \in Ids, aliases \in IdLists, uuid \in NewV4 :
        /\ record = None
        /\ record' = Some([type |-> "Tag", made_by |-> "new", uuid |-> Some(uuid),
              args |-> [name |-> name, created_by |-> created_by, aliases |-> aliases],
              value |-> TagNew(name, created_by, aliases, uuid)])
        /\ UNCHANGED <<builderVars, coreVars, seen>>

Collection_new ==
    \E name \in Names, created_by \in Ids, contained_media \in IdLists,
       uuid \in NewV4 :
        /\ record = None
        /\ record' = Some([type |-> "Collection", made_by |-> "new", uuid |-> Some(uuid),
              args |-> [name |-> name, created_by |-> created_by,
                       contained_media |-> contained_media],
              value |-> CollectionNew(name, created_by, contained_media, uuid)])
        /\ UNCHANGED <<builderVars, coreVars, seen>>

Group_new ==
    \E name \in Names, created_by \in Ids, contained_tags \in IdLists,
       uuid \in NewV4 :
        /\ record = None
        /\ record' = Some([type |-> "Group", made_by |-> "new", uuid |-> Some(uuid),
              args |-> [name |-> name, created_by |-> created_by,
                       contained_tags |-> contained_tags],
              value |-> GroupNew(name, created_by, contained_tags, uuid)])
        /\ UNCHANGED <<builderVars, coreVars, seen>>

Media_new ==
    \E extension \in Extensions, created_by \in Ids,
       custom_properties \in CustomProperties, uuid \in NewV4 :
        /\ record = None
        /\ record' = Some([type |-> "Media", made_by |-> "new", uuid |-> Some(uuid),
              args |-> [extension |-> extension, created_by |-> created_by,
                       custom_properties |-> custom_properties],
              value |-> MediaNew(extension, created_by, custom_properties, uuid)])
        /\ UNCHANGED <<builderVars, coreVars, seen>>

User_new ==
    \E name \in Names, passhash \in Passhashes, uuid \in NewV4 :
        /\ record = None
        /\ record' = Some([type |-> "User", made_by |-> "new", uuid |-> Some(uuid),
              args |-> [name |-> name, passhash |-> passhash],
              value |-> UserNew(name, passhash, uuid)])
        /\ UNCHANGED <<builderVars, coreVars, seen>>

\* a Tag whose fields are set one by one, as a permission-filtered read does
Tag_literal ==
    \E id \in U64s, name \in DatabaseValue(Names),
       created_by \in DatabaseValue(Ids), aliases \in DatabaseValue(IdLists) :
        /\ record = None
        /\ record' = Some([type |-> "Tag", made_by |-> "literal", uuid |-> None,
              args |-> [id |-> id, name |-> name, created_by |-> created_by,
                       aliases |-> aliases],
              value |-> TagStruct(id, name, created_by, aliases)])
        /\ UNCHANGED <<builderVars, coreVars, seen>>

IsTag == record # None /\ record[1].type = "Tag"

Tag_id ==
    /\ IsTag /\ seen.id = None
    /\ seen' = [seen EXCEPT !.id = Some(TagId(record[1].value))]
    /\ UNCHANGED <<builderVars, coreVars, record>>

Tag_name ==
    /\ IsTag /\ seen.name = None
    /\ seen' = [seen EXCEPT !.name = Some(TagName(record[1].value))]
    /\ UNCHANGED <<builderVars, coreVars, record>>

Tag_aliases ==
    /\ IsTag /\ seen.aliases = None
    /\ seen' = [seen EXCEPT !.aliases = Some(TagAliases(record[1].value))]
    /\ UNCHANGED <<builderVars, coreVars, record>>

Tag_created_by ==
    /\ IsTag /\ seen.created_by = None
    /\ seen' = [seen EXCEPT !.created_by = Some(TagCreatedBy(record[1].value))]
    /\ UNCHANGED <<builderVars, coreVars, record>>

DataNext ==
    \/ Tag_new
    \/ Collection_new
    \/ Group_new
    \/ Media_new
    \/ User_new
    \/ Tag_literal
    \/ Tag_id
    \/ Tag_name
    \/ Tag_aliases
    \/ Tag_created_by

DataSpec == DataInit /\ [][DataNext]_vars

\* ================================================================ claims
\* --------------------------------------------------------- builder claims
IsAdd(i) == history[i].call = "add"
IsNot(i) == history[i].call = "not"
IsOr(i) == history[i].call = "or"
Arg(i) == history[i].condition

\* the builder holds exactly the top-level list cs, and so does the query
\* finalise() returned, if it has been called
Yields(cs) ==
    /\ builder.conditions = cs
    /\ query # None => query[1].conditions = cs

\* C1: when only condition-adding calls were made (no not()/or()), the
\* query returned by finalise() lists exactly the added conditions in call
\* order.
C1_AppendOrder ==
    (query # None /\ \A i \in 1..Len(history) : IsAdd(i))
        => query[1].conditions = [i \in 1..Len(history) |-> Arg(i)]

C1_Witness ==
    /\ query # None
    /\ Len(history) >= 3
    /\ \A i \in 1..Len(history) : IsAdd(i)
    /\ Arg(1) # Arg(2)
    /\ Arg(2) # Arg(3)

\* C2: not() then one condition C gives the single top-level condition
\* Not(C) and an empty modifier queue; a following condition D is appended
\* unwrapped, giving [Not(C), D].
C2_NotWrapsNext ==
    /\ (Len(history) = 2 /\ IsNot(1) /\ IsAdd(2))
          => /\ Yields(<<NotCond(Arg(2))>>)
             /\ builder.modifiers = <<>>
    /\ (Len(history) = 3 /\ IsNot(1) /\ IsAdd(2) /\ IsAdd(3))
          => /\ Yields(<<NotCond(Arg(2)), Arg(3)>>)
             /\ builder.modifiers = <<>>

C2_Witness ==
    /\ query # None
    /\ Len(history) = 3 /\ IsNot(1) /\ IsAdd(2) /\ IsAdd(3)
    /\ Arg(2) # Arg(3)

\* C3: or() then two conditions C1, C2 gives the single top-level condition
\* Or(C1, C2) with C1 on the left, an empty modifier queue and no pending
\* operand.
C3_OrPairsNextTwo ==
    (Len(history) = 3 /\ IsOr(1) /\ IsAdd(2) /\ IsAdd(3))
        => /\ Yields(<<OrCond(Arg(2), Arg(3))>>)
           /\ builder.modifiers = <<>>
           /\ builder.accumulator = None

C3_Witness ==
    /\ query # None
    /\ Len(history) = 3 /\ IsOr(1) /\ IsAdd(2) /\ IsAdd(3)
    /\ Arg(2) # Arg(3)

\* C4: not(); or(); add(C1); add(C2) gives the single top-level condition
\* Not(Or(C1, C2)): the Not queued first ends up outermost.
C4_NotOverOr ==
    (Len(history) = 4 /\ IsNot(1) /\ IsOr(2) /\ IsAdd(3) /\ IsAdd(4))
        => Yields(<<NotCond(OrCond(Arg(3), Arg(4)))>>)

C4_Witness ==
    /\ query # None
    /\ Len(history) = 4 /\ IsNot(1) /\ IsOr(2) /\ IsAdd(3) /\ IsAdd(4)
    /\ Arg(3) # Arg(4)

\* C10: a call to not() or or() leaves the top-level conditions and the
\* pending operand as they were and puts exactly one entry, Not or Or
\* respectively, on top of the modifier queue.
C10_ModifierCallFrame ==
    [][(/\ Len(history') = Len(history) + 1
        /\ history'[Len(history')].call \in {"not", "or"})
          => /\ builder'.conditions = builder.conditions
             /\ builder'.accumulator = builder.accumulator
             /\ builder'.return_type = builder.return_type
             /\ builder'.modifiers =
                   Append(builder.modifiers,
                          IF history'[Len(history')].call = "not"
                          THEN "Not" ELSE "Or")]_vars

C10_Witness ==
    /\ Len(history) >= 4
    /\ history[Len(history)].call \in {"not", "or"}
    /\ builder.conditions # <<>>
    /\ builder.accumulator # None
    /\ Len(builder.modifiers) >= 2
    /\ builder.modifiers[1] # builder.modifiers[2]

\* the error the glossary of failures calls BadModifier
BadModifier == [tag |-> "BadModifier"]

\* C11: when finalise() is called with a modifier still queued, the outcome
\* is BadModifier, not a query that leaves the modifier out.
C11_DanglingModifierSurfaced ==
    (query # None /\ Len(builder.modifiers) > 0) => query[1] = BadModifier

\* C12: the query finalise() returns has the return shape of the
\* constructor used (count() Quantity, all() Objects) whatever calls were
\* made, the record kind of the builder as query_type, and the builder's
\* top-level conditions in the same order.
C12_FinaliseShape ==
    /\ builder.return_type = (IF constructor = "count" THEN "Quantity" ELSE "Objects")
    /\ query # None =>
          /\ query[1].return_type =
                (IF constructor = "count" THEN "Quantity" ELSE "Objects")
          /\ query[1].query_type = kind
          /\ query[1].conditions = builder.conditions

C12_Witness ==
    /\ query # None
    /\ constructor = "all"
    /\ kind = "Tags"
    /\ Len(builder.conditions) >= 2
    /\ builder.conditions[1] # builder.conditions[2]
    /\ \E i \in 1..Len(history) : IsNot(i)
    /\ \E i \in 1..Len(history) : IsOr(i)

\* the conditions a condition-adding call can be given
LeafConditions == {Id(id) : id \in Ids} \cup {NameIs(name) : name \in Names}

\* how often c occurs as a leaf of one condition tree / of a list of trees
RECURSIVE LeafCount(_, _)
LeafCount(tree, c) ==
    IF tree.tag = "Not" THEN LeafCount(tree.inner, c)
    ELSE IF tree.tag = "Or" THEN LeafCount(tree.first, c) + LeafCount(tree.second, c)
    ELSE IF tree = c THEN 1 ELSE 0

RECURSIVE LeafCountAll(_, _)
LeafCountAll(trees, c) ==
    IF Len(trees) = 0 THEN 0
    ELSE LeafCount(Head(trees), c) + LeafCountAll(Tail(trees), c)

\* how often c was passed to a condition-adding call
TimesAdded(c) == Cardinality({i \in 1..Len(history) : IsAdd(i) /\ Arg(i) = c})

\* C18: every condition passed to a condition-adding call occurs exactly
\* once as a leaf of the finalised query's top-level conditions.
C18_NoConditionLost ==
    query # None =>
        \A c \in LeafConditions :
            LeafCountAll(query[1].conditions, c) = TimesAdded(c)

\* condition wrapped in k nested Not nodes
RECURSIVE NotTimes(_, _)
NotTimes(k, condition) ==
    IF k = 0 THEN condition ELSE NotCond(NotTimes(k - 1, condition))

\* C19: k >= 1 consecutive not() calls followed by one condition C give the
\* single top-level condition C wrapped in k nested Not nodes, with nothing
\* simplified, and leave the modifier queue empty.
C19_NotsCompose ==
    LET n == Len(history)
    IN  (/\ n >= 2
         /\ \A i \in 1..(n - 1) : IsNot(i)
         /\ IsAdd(n))
          => /\ Yields(<<NotTimes(n - 1, Arg(n))>>)
             /\ builder.modifiers = <<>>

C19_Witness ==
    /\ query # None
    /\ Len(history) = 4
    /\ IsNot(1) /\ IsNot(2) /\ IsNot(3) /\ IsAdd(4)

\* left-nested Or over a non-empty list of conditions
RECURSIVE LeftOr(_)
LeftOr(cs) ==
    IF Len(cs) = 1 THEN cs[1]
    ELSE OrCond(LeftOr(SubSeq(cs, 1, Len(cs) - 1)), cs[Len(cs)])

\* the history is n or() calls followed by n + 1 condition-adding calls
OrsThenConditions(n) ==
    /\ Len(history) = 2 * n + 1
    /\ \A i \in 1..n : IsOr(i)
    /\ \A i \in (n + 1)..(2 * n + 1) : IsAdd(i)

\* C20: n >= 1 consecutive or() calls followed by n + 1 conditions give the
\* single top-level condition Or(..Or(Or(C1, C2), C3).., C(n+1)) of binary
\* Or nodes, with the modifier queue empty and no operand pending.
C20_OrsNestLeft ==
    \A n \in 1..MaxCalls :
        OrsThenConditions(n)
            => /\ Yields(<<LeftOr([i \in 1..(n + 1) |-> Arg(n + i)])>>)
               /\ builder.modifiers = <<>>
               /\ builder.accumulator = None

C20_Witness ==
    /\ query # None
    /\ OrsThenConditions(2)
    /\ Arg(3) # Arg(4) /\ Arg(4) # Arg(5) /\ Arg(3) # Arg(5)

\* C21: after or(); or(); add(C1); add(C2) on a fresh builder, C1 was parked
\* as the pending operand by the third call, C2 completed the pair
\* Or(C1, C2), and exactly one Or modifier is left in the queue with no
\* condition after it; the pair waits as the pending operand and the
\* top-level list is empty.
C21_OneOrLeftDangling ==
    /\ (Len(history) = 3 /\ IsOr(1) /\ IsOr(2) /\ IsAdd(3))
          => /\ builder.accumulator = Some(Arg(3))
             /\ builder.modifiers = <<"Or", "Or">>
             /\ builder.conditions = <<>>
    /\ (Len(history) = 4 /\ IsOr(1) /\ IsOr(2) /\ IsAdd(3) /\ IsAdd(4))
          => /\ builder.modifiers = <<"Or">>
             /\ builder.accumulator = Some(OrCond(Arg(3), Arg(4)))
             /\ Yields(<<>>)

C21_Witness ==
    /\ Len(history) = 4 /\ IsOr(1) /\ IsOr(2) /\ IsAdd(3) /\ IsAdd(4)
    /\ Arg(3) # Arg(4)
    /\ builder.modifiers = <<"Or">>
    /\ query # None

\* C22: or(); add(C1); not(); add(C2) gives the single top-level condition
\* Or(C1, Not(C2)), and or(); not(); add(C1); add(C2) gives
\* Or(Not(C1), C2): the Not wraps the one condition that follows it, never
\* the Or, and nothing is left queued or pending.
C22_NotWrapsOneOperand ==
    /\ (Len(history) = 4 /\ IsOr(1) /\ IsAdd(2) /\ IsNot(3) /\ IsAdd(4))
          => /\ Yields(<<OrCond(Arg(2), NotCond(Arg(4)))>>)
             /\ builder.modifiers = <<>>
             /\ builder.accumulator = None
    /\ (Len(history) = 4 /\ IsOr(1) /\ IsNot(2) /\ IsAdd(3) /\ IsAdd(4))
          => /\ Yields(<<OrCond(NotCond(Arg(3)), Arg(4))>>)
             /\ builder.modifiers = <<>>
             /\ builder.accumulator = None

C22_Witness ==
    /\ Len(history) = 4 /\ IsOr(1) /\ IsAdd(2) /\ IsNot(3) /\ IsAdd(4)
    /\ Arg(2) # Arg(4)
    /\ query # None
    /\ query[1].conditions = <<OrCond(Arg(2), NotCond(Arg(4)))>>

\* the builder call recorded as history entry e, made on a builder of kind k
Apply(k, self, e) ==
    IF e.call = "not" THEN QueueModifier(k, self, "Not")
    ELSE IF e.call = "or" THEN QueueModifier(k, self, "Or")
    ELSE AddCondition(k, self, e.condition)

ReturnTypes == {"Quantity", "Objects"}

\* C23: the five builders, started with count() or all(), agree on every
\* call sequence.  They start with the same empty conditions, operand and
\* queue; every call made on the builder in use gives a builder of any
\* other kind and return shape, in the same state, the same conditions,
\* operand and queue; and finalise on any of them gives the same query up
\* to query_type, return_type and id.
C23_BuildersAgree ==
    /\ [](history = <<>> =>
            \A k \in QueryTypes : \A c \in {"count", "all"} :
                /\ Construct(k, c).conditions = builder.conditions
                /\ Construct(k, c).accumulator = builder.accumulator
                /\ Construct(k, c).modifiers = builder.modifiers
                /\ Construct(k, c).return_type \in ReturnTypes)
    /\ [][/\ Len(history') = Len(history) + 1 =>
              \A k \in QueryTypes : \A rt \in ReturnTypes :
                  Apply(k, [builder EXCEPT !.return_type = rt],
                        history'[Len(history')])
                    = [builder' EXCEPT !.return_type = rt]
          /\ (query = None /\ query' # None) =>
              \A k \in QueryTypes : \A rt \in ReturnTypes : \A id \in Uuids :
                  Finalise(k, [builder EXCEPT !.return_type = rt], id)
                    = [query'[1] EXCEPT !.query_type = k,
                                        !.return_type = rt,
                                        !.id = id]]_vars

C23_Witness ==
    /\ kind = "Users"
    /\ constructor = "all"
    /\ query # None
    /\ \E i \in 1..Len(query[1].conditions) : query[1].conditions[i].tag = "Or"
    /\ Len(builder.modifiers) > 0
    /\ \E i \in 1..Len(history) : IsNot(i)
    /\ Apply("Media", count, [call |-> "or"]).modifiers = <<"Or">>

\* how often modifier m is in the modifier queue
Queued(m) ==
    Cardinality({i \in 1..Len(builder.modifiers) : builder.modifiers[i] = m})

\* C25: an operand is pending only while at least one Or modifier is in the
\* modifier queue; whenever the queue is empty no operand is pending.
C25_PendingNeedsOr ==
    /\ builder.accumulator # None => Queued("Or") >= 1
    /\ builder.modifiers = <<>> => builder.accumulator = None

C25_Witness ==
    /\ builder.accumulator # None
    /\ builder.accumulator[1].tag = "Or"
    /\ Len(builder.modifiers) >= 2
    /\ builder.modifiers[Len(builder.modifiers)] = "Not"
    /\ Queued("Or") = 1

\* how many nodes of one condition tree / of a list of trees carry tag t
RECURSIVE NodeCount(_, _)
NodeCount(tree, t) ==
    (IF tree.tag = t THEN 1 ELSE 0)
      + (IF tree.tag = "Not" THEN NodeCount(tree.inner, t)
         ELSE IF tree.tag = "Or"
              THEN NodeCount(tree.first, t) + NodeCount(tree.second, t)
              ELSE 0)

RECURSIVE NodeCountAll(_, _)
NodeCountAll(trees, t) ==
    IF Len(trees) = 0 THEN 0
    ELSE NodeCount(Head(trees), t) + NodeCountAll(Tail(trees), t)

\* the trees the builder holds: the top-level list, then the pending operand
Held == builder.conditions \o builder.accumulator

CallsMade(name) ==
    Cardinality({i \in 1..Len(history) : history[i].call = name})

\* C26: while building, every condition passed to a condition-adding call
\* is a leaf of the top-level list or of the pending operand exactly as
\* often as it was passed; the not() calls made equal the Not nodes in
\* those trees plus the Not entries queued; the or() calls made equal the
\* Or nodes in those trees plus the Or entries queued.
C26_CallsConserved ==
    /\ \A c \in LeafConditions : LeafCountAll(Held, c) = TimesAdded(c)
    /\ CallsMade("add") =
          NodeCountAll(Held, "Id") + NodeCountAll(Held, "NameIs")
    /\ CallsMade("not") = NodeCountAll(Held, "Not") + Queued("Not")
    /\ CallsMade("or") = NodeCountAll(Held, "Or") + Queued("Or")

C26_Witness ==
    /\ query = None
    /\ CallsMade("add") = 2
    /\ CallsMade("not") = 1
    /\ CallsMade("or") = 2
    /\ NodeCountAll(Held, "Or") = 1
    /\ Queued("Or") = 1
    /\ NodeCountAll(Held, "Not") = 1
    /\ builder.accumulator # None

\* C27: a condition-adding call made in any reachable builder state
\* terminates: each re-submission inside add_condition enters with a
\* strictly shorter modifier queue than the invocation before it, the call
\* makes at most (queue length + 1) invocations, and an invocation that
\* puts an Or back is the last one of its call.  The builder the run leaves
\* is the one add_condition returns.
C27_AddConditionTerminates ==
    \A c \in LeafConditions :
        LET r == TagAddConditionRun(builder, c)
            n == Len(r.queue)
        IN  /\ r.self = TagAddCondition(builder, c)
            /\ r.queue[1] = Len(builder.modifiers)
            /\ \A i \in 1..(n - 1) : r.queue[i + 1] < r.queue[i]
            /\ n <= Len(builder.modifiers) + 1
            /\ Len(r.self.modifiers) <= r.queue[n]

\* a call that went through four invocations (Not, Or with an operand
\* pending, Not, empty queue) has been made
C27_Witness ==
    /\ Len(history) = 5
    /\ IsNot(1) /\ IsOr(2) /\ IsAdd(3) /\ IsNot(4) /\ IsAdd(5)
    /\ Len(TagAddConditionRun(
              [builder EXCEPT !.modifiers = <<"Not", "Or", "Not">>,
                              !.accumulator = Some(Arg(3)),
                              !.conditions = <<>>], Arg(5)).queue) = 4
    /\ builder.conditions = <<NotCond(OrCond(Arg(3), NotCond(Arg(5))))>>
    /\ builder.modifiers = <<>>

\* ------------------------------------------------------ dispatcher claims
Count(trace, name) == Cardinality({i \in DOMAIN trace : trace[i].ev = name})
Position(trace, name) == CHOOSE i \in DOMAIN trace : trace[i].ev = name
Callbacks(send) == Count(send.trace, "frontend.database_message")
DatabaseCalls(send) == Count(send.trace, "database.send_query")
Returned(send) == send.returned # None
\* every callback this call has made carried the pair (id, values)
CallbacksCarry(send, id, values) ==
    \A i \in DOMAIN send.trace :
        send.trace[i].ev = "frontend.database_message"
            => send.trace[i].id = id /\ send.trace[i].values = values

\* C5: with no database attached, a send_query call never enters a database
\* operation, calls database_message with (q.id, NoDatabase) only, and by
\* the time it returns has done so exactly once and returns NoDatabase.
C5_NoDatabase ==
    database = None =>
        \A k \in 1..Len(sends) :
            /\ DatabaseCalls(sends[k]) = 0
            /\ Count(sends[k].trace, "database.returned") = 0
            /\ CallbacksCarry(sends[k], sends[k].query.id, NoDatabase)
            /\ Callbacks(sends[k]) <= 1
            /\ Returned(sends[k]) =>
                  /\ sends[k].returned = Some(NoDatabase)
                  /\ Callbacks(sends[k]) = 1

C5_Witness ==
    /\ database = None
    /\ Len(sends) = 2
    /\ Returned(sends[1]) /\ Returned(sends[2])
    /\ sends[1].query.id # sends[2].query.id

\* the result the adapter handed back for this call
AdapterResult(send) == send.trace[Position(send.trace, "database.returned")].values

\* C6: with a database attached that returns R for query q, the callback
\* receives (q.id, R) and send_query returns the same R.
C6_ResultPassedThrough ==
    database # None =>
        \A k \in 1..Len(sends) :
            /\ Callbacks(sends[k]) > 0 =>
                  CallbacksCarry(sends[k], sends[k].query.id, AdapterResult(sends[k]))
            /\ Returned(sends[k]) =>
                  /\ Callbacks(sends[k]) > 0
                  /\ sends[k].returned = Some(AdapterResult(sends[k]))

C6_Witness ==
    /\ database # None
    /\ Len(sends) = 2
    /\ Returned(sends[1]) /\ Returned(sends[2])
    /\ sends[1].returned = Some(Integer(7))
    /\ sends[2].returned = Some(Tags(<<>>))
    /\ sends[1].query.id # sends[2].query.id

\* C7: every send_query call invokes database_message exactly once by the
\* time it returns and never more than once, with or without a database
\* and whatever the database returned.
C7_ExactlyOneCallback ==
    \A k \in 1..Len(sends) :
        /\ Callbacks(sends[k]) <= 1
        /\ Returned(sends[k]) => Callbacks(sends[k]) = 1

C7_Witness ==
    /\ database # None
    /\ Len(sends) = 2
    /\ Returned(sends[1]) /\ Returned(sends[2])
    /\ sends[1].returned = Some(NoDatabase)
    /\ sends[2].returned = Some(Integer(7))

\* the order of events the claim prescribes for one call
PrescribedOrder ==
    IF database # None
    THEN <<"database.send_query", "database.returned",
           "frontend.database_message", "frontend.returned", "return">>
    ELSE <<"frontend.database_message", "frontend.returned", "return">>

\* C8: within one send_query call the database call completes first, then
\* the callback is invoked and completes, and only then does the call
\* return.
C8_StrictOrder ==
    \A k \in 1..Len(sends) :
        /\ Len(sends[k].trace) <= Len(PrescribedOrder)
        /\ \A i \in DOMAIN sends[k].trace :
              sends[k].trace[i].ev = PrescribedOrder[i]
        /\ Returned(sends[k]) => Count(sends[k].trace, "frontend.returned") = 1

C8_Witness ==
    /\ database # None
    /\ Len(sends) = 2
    /\ Returned(sends[1])
    /\ Len(sends[2].trace) = 3

\* C9: the attached adapter's send_query is invoked at most once per call
\* and exactly once by the time the call returns, also when it returned an
\* error; with no database attached it is never invoked.
C9_NoRetry ==
    \A k \in 1..Len(sends) :
        /\ DatabaseCalls(sends[k]) <= 1
        /\ Count(sends[k].trace, "database.returned") <= 1
        /\ database = None => DatabaseCalls(sends[k]) = 0
        /\ (database # None /\ Returned(sends[k])) => DatabaseCalls(sends[k]) = 1

C9_Witness ==
    /\ database # None
    /\ Len(sends) >= 1
    /\ Returned(sends[1])
    /\ sends[1].returned = Some(NoDatabase)
    /\ DatabaseCalls(sends[1]) = 1

\* C16: however concurrent send_query calls interleave, each call makes
\* exactly one callback by the time it returns, carrying its own query's id
\* and the result produced for that query, and the result a call holds is
\* never one written by another call.
C16_CallsIndependent ==
    \A k \in 1..Len(sends) :
        LET expected == IF database = None THEN NoDatabase
                        ELSE AdapterResult(sends[k])
        IN  /\ Callbacks(sends[k]) <= 1
            /\ Callbacks(sends[k]) = 1 =>
                  CallbacksCarry(sends[k], sends[k].query.id, expected)
            /\ Returned(sends[k]) =>
                  /\ Callbacks(sends[k]) = 1
                  /\ sends[k].returned = Some(expected)
            /\ sends[k].result # None => sends[k].result = Some(expected)

\* the second call overtook the first, with another id and another result
C16_Witness ==
    /\ database # None
    /\ Len(sends) = 2
    /\ sends[1].result # None /\ Callbacks(sends[1]) = 0
    /\ Returned(sends[2])
    /\ sends[1].result # sends[2].result
    /\ sends[1].query.id # sends[2].query.id

AdapterReturned(send) == Count(send.trace, "database.returned") >= 1
CallbackReturned(send) == Count(send.trace, "frontend.returned") >= 1

\* C24: send_query has no timeout or cancellation.  With a Database
\* attached, a call makes its callback only after the adapter returned for
\* it, and completes only after the adapter and then the callback
\* returned; so a call whose adapter never returns makes no callback and
\* never completes.  Conversely, no call stays for ever between the
\* adapter's return and its callback, or between the callback's return and
\* its own: again and again every call whose adapter has returned has made
\* its callback and every call whose callback has returned has completed.
C24_NoTimeout ==
    /\ [](\A k \in 1..Len(sends) :
            /\ (database # None /\ Callbacks(sends[k]) >= 1)
                  => /\ AdapterReturned(sends[k])
                     /\ Position(sends[k].trace, "database.returned")
                          < Position(sends[k].trace, "frontend.database_message")
            /\ Returned(sends[k])
                  => /\ CallbackReturned(sends[k])
                     /\ database # None => AdapterReturned(sends[k])
            /\ (database # None /\ ~AdapterReturned(sends[k]))
                  => Callbacks(sends[k]) = 0 /\ ~Returned(sends[k]))
    /\ []<>(\A k \in 1..Len(sends) :
              /\ (database # None /\ AdapterReturned(sends[k]))
                    => Callbacks(sends[k]) = 1
              /\ CallbackReturned(sends[k]) => Returned(sends[k]))

\* one call is still waiting for the adapter, with no callback made and
\* nothing returned, while a later call has gone through adapter, callback
\* and return
C24_Witness ==
    /\ database # None
    /\ Len(sends) = 2
    /\ Stmt(1) = "database.returned"
    /\ Callbacks(sends[1]) = 0
    /\ ~Returned(sends[1])
    /\ AdapterReturned(sends[2])
    /\ CallbackReturned(sends[2])
    /\ Returned(sends[2])

\* --------------------------------------------------------- record claims
MadeByNew == record # None /\ record[1].made_by = "new"
\* the DatabaseValue fields of the constructed struct (id is a bare u64)
Fields == DOMAIN record[1].value \ {"id"}

\* C13 as stated: every field of a record built by K::new is Present.
C13_AllPresent ==
    MadeByNew => \A f \in Fields : record[1].value[f].tag = "Some"

\* C13: every field of a record built by K::new is Present and none is
\* Unauthorised, except that Media::new called without custom properties
\* leaves custom_properties Absent.
C13_PresentUnlessNoProperties ==
    MadeByNew =>
        \A f \in Fields :
            IF /\ record[1].type = "Media"
               /\ f = "custom_properties"
               /\ record[1].args.custom_properties = None
            THEN record[1].value[f].tag = "None"
            ELSE record[1].value[f].tag = "Some"

C13_Witness ==
    /\ MadeByNew
    /\ record[1].type = "Media"
    /\ record[1].args.custom_properties = None
    /\ record[1].value.extension = DbSome("png")

\* C14 as stated: the id is the low 64 bits of the 128-bit random value
\* (its last 8 bytes).
C14_LowHalfKept ==
    MadeByNew => record[1].value.id = SubSeq(record[1].uuid[1], 9, 16)

\* C14: the id is the high 64 bits of the 128-bit random value (its first
\* 8 bytes), for every record kind's constructor.
C14_HighHalfKept ==
    MadeByNew => record[1].value.id = SubSeq(record[1].uuid[1], 1, 8)

C14_Witness ==
    /\ MadeByNew
    /\ record[1].type = "Tag"
    /\ record[1].uuid[1][1] # record[1].uuid[1][16]
    /\ seen.id = Some(record[1].value.id)

\* C15: reading a field of a Tag returns exactly the state and value that
\* field was constructed with; a field set to Unauthorised reads as
\* Unauthorised and the other fields are unaffected.
C15_FieldStatesKept ==
    (record # None /\ record[1].type = "Tag" /\ record[1].made_by = "literal")
        => \A f \in {"id", "name", "aliases", "created_by"} :
              seen[f] # None => seen[f] = Some(record[1].args[f])

C15_Witness ==
    /\ record # None
    /\ record[1].made_by = "literal"
    /\ record[1].args.created_by = Unauthorised
    /\ record[1].args.name = DbSome("a")
    /\ record[1].args.aliases = DbNone
    /\ seen.created_by = Some(Unauthorised)
    /\ seen.name = Some(DbSome("a"))
    /\ seen.aliases = Some(DbNone)
    /\ seen.id # None

====
